---------------------------- MODULE Spec2Model ----------------------------
(***************************************************************************)
(* Model of create_game.py, the generator of the HTML Timberman page.      *)
(*                                                                         *)
(* The script is one sequential run: load the template, generate the       *)
(* tree, clear and recreate static/game_frame_copies, walk the tree        *)
(* building `sequence` and copying one GIF per step, render, and write     *)
(* index.html.  Every uncaught exception ends the run.                     *)
(*                                                                         *)
(* Tree indices are 0-based as in the source; At(t, i) reads t[i].         *)
(***************************************************************************)
EXTENDS Integers, Sequences, FiniteSets, TLC

VARIABLES
    length,           \* argument of generate_tree
    pc,               \* position of the run in the script
    error,            \* the exception that ended the run, "none" otherwise
    tree,             \* the list built by generate_tree, then the module's tree
    loop_appends,     \* appends made by the while loop of generate_tree
    template_present, \* templates/game.html exists
    game_frames,      \* file names present in static/game_frames
    folder,           \* static/game_frame_copies: [exists, files]
    folder0,          \* static/game_frame_copies as the run found it
    applications,     \* completed clear-and-recreate steps
    index,            \* loop variable of enumerate(tree)
    sequence,         \* the list handed to the template
    copy_requests,    \* calls of shutil.copyfile, in order: [src, dst]
    reads,            \* tree indices the traversal has read
    output,           \* result of template.render
    index_writable,   \* index.html can be opened for writing
    index_html        \* "absent", "stale" (a previous run's) or "written"

vars == <<length, pc, error, tree, loop_appends, template_present, game_frames,
          folder, folder0, applications, index, sequence, copy_requests, reads,
          output, index_writable, index_html>>

(***************************************************************************)
(* Bounds of the model.                                                    *)
(***************************************************************************)
MaxLength == 12
MaxTreeLen == 6
MaxMissing == 1
MaxApplications == 2

Lengths == (0 - MaxLength)..MaxLength

Symbols == {"N", "L", "R"}

(***************************************************************************)
(* The file system the run finds.                                          *)
(***************************************************************************)
FrameNames == {"LNL", "LNR", "RNL", "RNR", "NLN", "NRN"}

AllFrames == {n \o ".gif" : n \in FrameNames}

FrameStores ==
    {AllFrames \ m : m \in {s \in SUBSET AllFrames : Cardinality(s) <= MaxMissing}}

MissingFolder == [exists |-> FALSE, files |-> {}]

EmptyFolder == [exists |-> TRUE, files |-> {}]

InitialFolders ==
    {MissingFolder,
     EmptyFolder,
     [exists |-> TRUE, files |-> {"NLN_0.gif"}],
     [exists |-> TRUE, files |-> {"NRN_0.gif", "RNL_99.gif"}]}

StaleFiles ==
    {"NLN_0.gif", "NRN_0.gif", "LNL_1.gif", "LNR_1.gif", "RNL_1.gif",
     "RNR_1.gif", "RNL_99.gif"}

AnyFolders ==
    {MissingFolder} \cup {[exists |-> TRUE, files |-> s] : s \in SUBSET StaleFiles}

(***************************************************************************)
(* Helpers.                                                                *)
(***************************************************************************)
At(t, i) == t[i + 1]

Last(t) == t[Len(t)]

RECURSIVE SeqsUpTo(_)
SeqsUpTo(n) ==
    IF n = 0 THEN {<<>>}
    ELSE LET shorter == SeqsUpTo(n - 1)
         IN  shorter \cup {Append(s, x) : s \in {q \in shorter : Len(q) = n - 1},
                                          x \in Symbols}

(***************************************************************************)
(* generate_tree                                                           *)
(***************************************************************************)
MinLength == 5

LengthInvalidAnd(n) == n < MinLength /\ n % 2 = 0

LengthInvalid(n) == n < MinLength \/ n % 2 = 0

LoopCondOffByOne(t, n) == Len(t) < n - 1

LoopCond(t, n) == Len(t) < n - 2

AppendChoicesAnySymbol(t) ==
    IF Last(t) = "N" THEN {"R", "L", "N"} ELSE {"N"}

AppendChoices(t) ==
    IF Last(t) = "N" THEN {"R", "L"} ELSE {"N"}

TreeTail(t) == Append(Append(t, "R"), "N")

(***************************************************************************)
(* create_gif_copy and the folder operations                               *)
(***************************************************************************)
CopySource(name) == name \o ".gif"

CopyDestNoIndex(name, num) == name \o ".gif"

CopyDest(name, num) == name \o "_" \o ToString(num) \o ".gif"

\* A copy whose missing source is swallowed instead of raised.
CopyFileIgnoreMissing(frames, f, src, dst) ==
    IF src \in frames /\ f.exists
    THEN [ok |-> TRUE, folder |-> [f EXCEPT !.files = @ \cup {dst}]]
    ELSE [ok |-> TRUE, folder |-> f]

\* shutil.copyfile: the source is opened first, then the destination.
CopyFile(frames, f, src, dst) ==
    IF src \in frames /\ f.exists
    THEN [ok |-> TRUE, folder |-> [f EXCEPT !.files = @ \cup {dst}]]
    ELSE [ok |-> FALSE, folder |-> f]

\* os.rmdir in place of shutil.rmtree: refuses a folder that holds files.
RmtreeOpOnlyEmpty(f) ==
    IF f.exists /\ f.files = {}
    THEN [ok |-> TRUE, folder |-> MissingFolder]
    ELSE [ok |-> FALSE, folder |-> f]

RmtreeOp(f) ==
    IF f.exists
    THEN [ok |-> TRUE, folder |-> MissingFolder]
    ELSE [ok |-> FALSE, folder |-> f]

MkdirOp(f) ==
    IF f.exists
    THEN [ok |-> FALSE, folder |-> f]
    ELSE [ok |-> TRUE, folder |-> EmptyFolder]

(***************************************************************************)
(* The sequence-building loop                                              *)
(***************************************************************************)
NextNextBlockSentinelR(t, i) ==
    IF i = Len(t) - 2 THEN "R" ELSE At(t, i + 2)

NextNextBlock(t, i) ==
    IF i = Len(t) - 2 THEN "L" ELSE At(t, i + 2)

NextNextReads(t, i) ==
    IF i = Len(t) - 2 THEN {} ELSE {i + 2}

Entry(correct, main, wrong, death) == <<<<correct, main>>, <<wrong, death>>>>

\* The match statement: the empty sequence when no case matches, otherwise
\* the appended entry and the name passed to create_gif_copy.
MatchSwappedButton(b, n, nn) ==
    CASE b = "L" /\ n = "N" /\ nn = "L" ->
            <<[entry |-> Entry("R", "LNL", "L", "LN_DEATH"), gif |-> "LNL"]>>
      [] b = "L" /\ n = "N" /\ nn = "R" ->
            <<[entry |-> Entry("L", "LNR", "R", "LN_DEATH"), gif |-> "LNR"]>>
      [] b = "R" /\ n = "N" /\ nn = "L" ->
            <<[entry |-> Entry("L", "RNL", "R", "RN_DEATH"), gif |-> "RNL"]>>
      [] b = "R" /\ n = "N" /\ nn = "R" ->
            <<[entry |-> Entry("L", "RNR", "R", "RN_DEATH"), gif |-> "RNR"]>>
      [] b = "N" /\ n = "L" /\ nn = "N" ->
            <<[entry |-> Entry("R", "NLN", "L", "NLN_DEATH"), gif |-> "NLN"]>>
      [] b = "N" /\ n = "R" /\ nn = "N" ->
            <<[entry |-> Entry("L", "NRN", "R", "NRN_DEATH"), gif |-> "NRN"]>>
      [] OTHER -> <<>>

MatchNoRNR(b, n, nn) ==
    CASE b = "L" /\ n = "N" /\ nn = "L" ->
            <<[entry |-> Entry("R", "LNL", "L", "LN_DEATH"), gif |-> "LNL"]>>
      [] b = "L" /\ n = "N" /\ nn = "R" ->
            <<[entry |-> Entry("R", "LNR", "L", "LN_DEATH"), gif |-> "LNR"]>>
      [] b = "R" /\ n = "N" /\ nn = "L" ->
            <<[entry |-> Entry("L", "RNL", "R", "RN_DEATH"), gif |-> "RNL"]>>
      [] b = "N" /\ n = "L" /\ nn = "N" ->
            <<[entry |-> Entry("R", "NLN", "L", "NLN_DEATH"), gif |-> "NLN"]>>
      [] b = "N" /\ n = "R" /\ nn = "N" ->
            <<[entry |-> Entry("L", "NRN", "R", "NRN_DEATH"), gif |-> "NRN"]>>
      [] OTHER -> <<>>

MatchNoNLN(b, n, nn) ==
    CASE b = "L" /\ n = "N" /\ nn = "L" ->
            <<[entry |-> Entry("R", "LNL", "L", "LN_DEATH"), gif |-> "LNL"]>>
      [] b = "L" /\ n = "N" /\ nn = "R" ->
            <<[entry |-> Entry("R", "LNR", "L", "LN_DEATH"), gif |-> "LNR"]>>
      [] b = "R" /\ n = "N" /\ nn = "L" ->
            <<[entry |-> Entry("L", "RNL", "R", "RN_DEATH"), gif |-> "RNL"]>>
      [] b = "R" /\ n = "N" /\ nn = "R" ->
            <<[entry |-> Entry("L", "RNR", "R", "RN_DEATH"), gif |-> "RNR"]>>
      [] b = "N" /\ n = "R" /\ nn = "N" ->
            <<[entry |-> Entry("L", "NRN", "R", "NRN_DEATH"), gif |-> "NRN"]>>
      [] OTHER -> <<>>

Match(b, n, nn) ==
    CASE b = "L" /\ n = "N" /\ nn = "L" ->
            <<[entry |-> Entry("R", "LNL", "L", "LN_DEATH"), gif |-> "LNL"]>>
      [] b = "L" /\ n = "N" /\ nn = "R" ->
            <<[entry |-> Entry("R", "LNR", "L", "LN_DEATH"), gif |-> "LNR"]>>
      [] b = "R" /\ n = "N" /\ nn = "L" ->
            <<[entry |-> Entry("L", "RNL", "R", "RN_DEATH"), gif |-> "RNL"]>>
      [] b = "R" /\ n = "N" /\ nn = "R" ->
            <<[entry |-> Entry("L", "RNR", "R", "RN_DEATH"), gif |-> "RNR"]>>
      [] b = "N" /\ n = "L" /\ nn = "N" ->
            <<[entry |-> Entry("R", "NLN", "L", "NLN_DEATH"), gif |-> "NLN"]>>
      [] b = "N" /\ n = "R" /\ nn = "N" ->
            <<[entry |-> Entry("L", "NRN", "R", "NRN_DEATH"), gif |-> "NRN"]>>
      [] OTHER -> <<>>

(***************************************************************************)
(* The run                                                                 *)
(***************************************************************************)
Fresh ==
    /\ pc = "get_template"
    /\ error = "none"
    /\ tree = <<>>
    /\ loop_appends = 0
    /\ applications = 0
    /\ index = 0
    /\ sequence = <<>>
    /\ copy_requests = <<>>
    /\ reads = {}
    /\ output = <<>>

Init ==
    /\ length \in Lengths
    /\ template_present \in BOOLEAN
    /\ game_frames \in FrameStores
    /\ folder \in InitialFolders
    /\ folder0 = folder
    /\ index_writable \in BOOLEAN
    /\ index_html \in {"absent", "stale"}
    /\ Fresh

Fail(kind) ==
    /\ pc' = "failed"
    /\ error' = kind

\* env.get_template("game.html")
GetTemplate ==
    /\ pc = "get_template"
    /\ IF template_present
       THEN pc' = "generate_tree" /\ error' = error
       ELSE Fail("TemplateNotFound")
    /\ UNCHANGED <<length, tree, loop_appends, template_present, game_frames,
                   folder, folder0, applications, index, sequence,
                   copy_requests, reads, output, index_writable, index_html>>

\* generate_tree(length): the argument check and tree = ['N']
GenerateTreeEnter ==
    /\ pc = "generate_tree"
    /\ IF LengthInvalid(length)
       THEN Fail("ValueError") /\ tree' = tree
       ELSE pc' = "gen_loop" /\ error' = error /\ tree' = <<"N">>
    /\ UNCHANGED <<length, loop_appends, template_present, game_frames, folder,
                   folder0, applications, index, sequence, copy_requests,
                   reads, output, index_writable, index_html>>

\* One iteration of the while loop, random.choice drawn from its list.
GenerateTreeLoop ==
    /\ pc = "gen_loop"
    /\ LoopCond(tree, length)
    /\ \E s \in AppendChoices(tree) : tree' = Append(tree, s)
    /\ loop_appends' = loop_appends + 1
    /\ UNCHANGED <<length, pc, error, template_present, game_frames, folder,
                   folder0, applications, index, sequence, copy_requests,
                   reads, output, index_writable, index_html>>

\* The while condition is false.
GenerateTreeLoopExit ==
    /\ pc = "gen_loop"
    /\ ~LoopCond(tree, length)
    /\ pc' = "gen_tail"
    /\ UNCHANGED <<length, error, tree, loop_appends, template_present,
                   game_frames, folder, folder0, applications, index, sequence,
                   copy_requests, reads, output, index_writable, index_html>>

\* tree.append('R'); tree.append('N'); return ''.join(tree)
GenerateTreeReturn ==
    /\ pc = "gen_tail"
    /\ tree' = TreeTail(tree)
    /\ pc' = "rmtree"
    /\ UNCHANGED <<length, error, loop_appends, template_present, game_frames,
                   folder, folder0, applications, index, sequence,
                   copy_requests, reads, output, index_writable, index_html>>

\* shutil.rmtree('static/game_frame_copies')
Rmtree ==
    /\ pc = "rmtree"
    /\ LET r == RmtreeOp(folder)
       IN  /\ folder' = r.folder
           /\ IF r.ok
              THEN pc' = "mkdir" /\ error' = error
              ELSE Fail("FileNotFoundError:rmtree")
    /\ UNCHANGED <<length, tree, loop_appends, template_present, game_frames,
                   folder0, applications, index, sequence, copy_requests,
                   reads, output, index_writable, index_html>>

\* shutil.os.mkdir('static/game_frame_copies')
Mkdir ==
    /\ pc = "mkdir"
    /\ LET r == MkdirOp(folder)
       IN  /\ folder' = r.folder
           /\ IF r.ok
              THEN /\ pc' = "build"
                   /\ error' = error
                   /\ applications' = applications + 1
              ELSE /\ Fail("FileExistsError:mkdir")
                   /\ applications' = applications
    /\ UNCHANGED <<length, tree, loop_appends, template_present, game_frames,
                   folder0, index, sequence, copy_requests, reads, output,
                   index_writable, index_html>>

\* One iteration of `for index, block in enumerate(tree)`.
BuildStep ==
    /\ pc = "build"
    /\ index < Len(tree)
    /\ IF index = Len(tree) - 1
       THEN /\ reads' = reads \cup {index}
            /\ index' = index + 1
            /\ UNCHANGED <<pc, error, sequence, copy_requests, folder>>
       ELSE LET block == At(tree, index)
                next_block == At(tree, index + 1)
                next_next_block == NextNextBlock(tree, index)
                m == Match(block, next_block, next_next_block)
            IN  /\ reads' = reads \cup {index, index + 1}
                                  \cup NextNextReads(tree, index)
                /\ IF m = <<>>
                   THEN /\ index' = index + 1
                        /\ UNCHANGED <<pc, error, sequence, copy_requests, folder>>
                   ELSE LET src == CopySource(m[1].gif)
                            dst == CopyDest(m[1].gif, index)
                            c == CopyFile(game_frames, folder, src, dst)
                        IN  /\ sequence' = Append(sequence, m[1].entry)
                            /\ copy_requests' =
                                   Append(copy_requests, [src |-> src, dst |-> dst])
                            /\ folder' = c.folder
                            /\ IF c.ok
                               THEN /\ index' = index + 1
                                    /\ UNCHANGED <<pc, error>>
                               ELSE /\ Fail("FileNotFoundError:copyfile")
                                    /\ index' = index
    /\ UNCHANGED <<length, tree, loop_appends, template_present, game_frames,
                   folder0, applications, output, index_writable, index_html>>

\* The for loop is exhausted.
BuildExit ==
    /\ pc = "build"
    /\ index = Len(tree)
    /\ pc' = "render"
    /\ UNCHANGED <<length, error, tree, loop_appends, template_present,
                   game_frames, folder, folder0, applications, index, sequence,
                   copy_requests, reads, output, index_writable, index_html>>

\* output = template.render({"sequence": sequence})
Render ==
    /\ pc = "render"
    /\ output' = sequence
    /\ pc' = "write"
    /\ UNCHANGED <<length, error, tree, loop_appends, template_present,
                   game_frames, folder, folder0, applications, index, sequence,
                   copy_requests, reads, index_writable, index_html>>

\* with open("index.html", "w") as f: f.write(output)
WriteIndex ==
    /\ pc = "write"
    /\ IF index_writable
       THEN pc' = "done" /\ error' = error /\ index_html' = "written"
       ELSE Fail("OSError:open") /\ index_html' = index_html
    /\ UNCHANGED <<length, tree, loop_appends, template_present, game_frames,
                   folder, folder0, applications, index, sequence,
                   copy_requests, reads, output, index_writable>>

Next ==
    \/ GetTemplate
    \/ GenerateTreeEnter
    \/ GenerateTreeLoop
    \/ GenerateTreeLoopExit
    \/ GenerateTreeReturn
    \/ Rmtree
    \/ Mkdir
    \/ BuildStep
    \/ BuildExit
    \/ Render
    \/ WriteIndex

Spec == Init /\ [][Next]_vars

(***************************************************************************)
(* The sequence-building loop on an arbitrary tree, the output folder      *)
(* already prepared.                                                       *)
(***************************************************************************)
InitBuild ==
    /\ tree \in SeqsUpTo(MaxTreeLen)
    /\ length = Len(tree)
    /\ pc = "build"
    /\ error = "none"
    /\ loop_appends = 0
    /\ template_present = TRUE
    /\ game_frames \in FrameStores
    /\ folder = EmptyFolder
    /\ folder0 = EmptyFolder
    /\ applications = 1
    /\ index = 0
    /\ sequence = <<>>
    /\ copy_requests = <<>>
    /\ reads = {}
    /\ output = <<>>
    /\ index_writable = TRUE
    /\ index_html = "absent"

NextBuild ==
    \/ BuildStep
    \/ BuildExit

SpecBuild == InitBuild /\ [][NextBuild]_vars

(***************************************************************************)
(* The folder-clear step applied repeatedly to an arbitrary folder.        *)
(***************************************************************************)
InitPrep ==
    /\ length = MinLength
    /\ tree \in {<<"N", "L", "N", "R", "N">>, <<"N", "R", "N", "R", "N">>}
    /\ pc = "rmtree"
    /\ error = "none"
    /\ loop_appends = MinLength - 3
    /\ template_present = TRUE
    /\ game_frames = AllFrames
    /\ folder \in AnyFolders
    /\ folder0 = folder
    /\ applications = 0
    /\ index = 0
    /\ sequence = <<>>
    /\ copy_requests = <<>>
    /\ reads = {}
    /\ output = <<>>
    /\ index_writable = TRUE
    /\ index_html = "absent"

\* The folder-clear step is called again, right after it completed.
PrepareAgain ==
    /\ pc = "build"
    /\ applications < MaxApplications
    /\ pc' = "rmtree"
    /\ UNCHANGED <<length, error, tree, loop_appends, template_present,
                   game_frames, folder, folder0, applications, index, sequence,
                   copy_requests, reads, output, index_writable, index_html>>

NextPrep ==
    \/ Rmtree
    \/ Mkdir
    \/ PrepareAgain

SpecPrep == InitPrep /\ [][NextPrep]_vars

(***************************************************************************)
(* Vocabulary of the properties, stated from the specification's words.    *)
(***************************************************************************)
IsDirection(s) == s \in {"L", "R"}

ValidLength(n) == n >= 5 /\ n % 2 = 1

Complement(d) == IF d = "L" THEN "R" ELSE "L"

Min(a, b) == IF a < b THEN a ELSE b

\* generate_tree has returned its tree.
TreeReturned ==
    \/ pc \in {"rmtree", "mkdir", "build", "render", "write", "done"}
    \/ pc = "failed" /\ error \notin {"TemplateNotFound", "ValueError"}

\* The traversal has run to its end.
BuildDone ==
    \/ pc \in {"render", "write", "done"}
    \/ pc = "failed" /\ error = "OSError:open"

\* The 3-symbol window at tree index i, i <= Len(t) - 2.
Window(t, i) ==
    <<At(t, i), At(t, i + 1), IF i = Len(t) - 2 THEN "L" ELSE At(t, i + 2)>>

TableKeys ==
    {<<"L", "N", "L">>, <<"L", "N", "R">>, <<"R", "N", "L">>,
     <<"R", "N", "R">>, <<"N", "L", "N">>, <<"N", "R", "N">>}

\* The lookaside table: [correct, success, wrong, failure] of a key.
TableRow(w) ==
    CASE w = <<"L", "N", "L">> ->
            [correct |-> "R", success |-> "LNL", wrong |-> "L", failure |-> "LN_DEATH"]
      [] w = <<"L", "N", "R">> ->
            [correct |-> "R", success |-> "LNR", wrong |-> "L", failure |-> "LN_DEATH"]
      [] w = <<"R", "N", "L">> ->
            [correct |-> "L", success |-> "RNL", wrong |-> "R", failure |-> "RN_DEATH"]
      [] w = <<"R", "N", "R">> ->
            [correct |-> "L", success |-> "RNR", wrong |-> "R", failure |-> "RN_DEATH"]
      [] w = <<"N", "L", "N">> ->
            [correct |-> "R", success |-> "NLN", wrong |-> "L", failure |-> "NLN_DEATH"]
      [] w = <<"N", "R", "N">> ->
            [correct |-> "L", success |-> "NRN", wrong |-> "R", failure |-> "NRN_DEATH"]

\* A Step Descriptor as the sequence holds it.
Descriptor(row) == <<<<row.correct, row.success>>, <<row.wrong, row.failure>>>>

FirstDirection(w) == IF IsDirection(w[1]) THEN w[1] ELSE w[2]

DeathAssets == {"LN_DEATH", "RN_DEATH", "NLN_DEATH", "NRN_DEATH"}

\* Tree positions the traversal has gone through: the current one too when
\* its copy ended the run.
Processed ==
    IF pc = "failed" /\ error = "FileNotFoundError:copyfile"
    THEN index + 1 ELSE index

IsMatchedIndex(i) == i <= Len(tree) - 2 /\ Window(tree, i) \in TableKeys

\* The processed indices whose window is a table key, ascending.
MatchedIndices ==
    SelectSeq([k \in 1..Processed |-> k - 1], IsMatchedIndex)

(***************************************************************************)
(* C1: for every odd length >= 5 and every outcome of the random choices,  *)
(* generate_tree returns exactly `length` symbols over {N, L, R}, first    *)
(* and last N, no two direction symbols adjacent, and R at length - 2.     *)
(***************************************************************************)
C1_ReturnedTreeInvariants ==
    /\ ValidLength(length) => error # "ValueError"
    /\ TreeReturned =>
          /\ ValidLength(length)
          /\ Len(tree) = length
          /\ \A i \in 0..(Len(tree) - 1) : At(tree, i) \in Symbols
          /\ At(tree, 0) = "N"
          /\ At(tree, length - 1) = "N"
          /\ \A i \in 0..(Len(tree) - 2) :
                ~(IsDirection(At(tree, i)) /\ IsDirection(At(tree, i + 1)))
          /\ At(tree, length - 2) = "R"

C1_Witness ==
    /\ TreeReturned
    /\ length = 9
    /\ At(tree, 1) = "L"
    /\ At(tree, 3) = "R"

(***************************************************************************)
(* C2: on a tree returned by generate_tree(length) the loop produces       *)
(* exactly length - 1 entries, one per index 0..length-2 in ascending      *)
(* order: no window is unmatched, only the last index adds nothing.        *)
(***************************************************************************)
C2_OneEntryPerIndex ==
    /\ pc = "build" => Len(sequence) = Min(index, length - 1)
    /\ BuildDone => Len(sequence) = length - 1 /\ index = length
    /\ TreeReturned =>
          \A k \in 1..Len(sequence) :
             /\ Window(tree, k - 1) \in TableKeys
             /\ sequence[k] = Descriptor(TableRow(Window(tree, k - 1)))

C2_Witness ==
    /\ pc = "done"
    /\ length = 9
    /\ Len(sequence) = 8
    /\ At(tree, 1) = "L"

(***************************************************************************)
(* C3 as claimed: every tree with the data model's invariants (odd length  *)
(* >= 5, symbols N/L/R, first and last N, every L or R immediately         *)
(* followed by N, second-to-last R) gets one entry per position but the    *)
(* last, none skipped.                                                     *)
(***************************************************************************)
TreeInvariantsAsStated(t) ==
    /\ ValidLength(Len(t))
    /\ \A i \in 0..(Len(t) - 1) : At(t, i) \in Symbols
    /\ At(t, 0) = "N"
    /\ At(t, Len(t) - 1) = "N"
    /\ \A i \in 0..(Len(t) - 2) : IsDirection(At(t, i)) => At(t, i + 1) = "N"
    /\ At(t, Len(t) - 2) = "R"

NoAdjacentN(t) ==
    \A i \in 0..(Len(t) - 2) : ~(At(t, i) = "N" /\ At(t, i + 1) = "N")

NoneSkipped ==
    /\ pc \in {"build", "render"} => Len(sequence) = Min(index, Len(tree) - 1)
    /\ pc = "failed" => Len(sequence) = index + 1
    /\ pc = "render" => Len(sequence) = Len(tree) - 1

C4_DescriptorIsTableRow ==
    /\ Len(sequence) = Len(MatchedIndices)
    /\ \A k \in 1..Len(sequence) :
          LET w == Window(tree, MatchedIndices[k])
          IN  /\ sequence[k] = Descriptor(TableRow(w))
              /\ sequence[k][2][1] = Complement(sequence[k][1][1])
              /\ sequence[k][1][1] = Complement(FirstDirection(w))

C4_Witness ==
    /\ pc = "render"
    /\ {sequence[k][1][2] : k \in 1..Len(sequence)} =
          {"LNR", "NRN", "RNL", "NLN"}

(***************************************************************************)
(* C5: the copy requests correspond one to one to the emitted descriptors: *)
(* the descriptor of index i with success asset S has exactly one request, *)
(* from S to S_i; skipped indices and the last index have none, and no     *)
(* failure asset is ever copied.                                           *)
(***************************************************************************)
C5_CopyPerDescriptor ==
    /\ Len(copy_requests) = Len(sequence)
    /\ Len(copy_requests) = Len(MatchedIndices)
    /\ \A k \in 1..Len(copy_requests) :
          LET S == sequence[k][1][2]
              i == MatchedIndices[k]
          IN  /\ copy_requests[k].src = S \o ".gif"
              /\ copy_requests[k].dst = S \o "_" \o ToString(i) \o ".gif"
              /\ copy_requests[k].src \notin {d \o ".gif" : d \in DeathAssets}
    /\ \A j, k \in 1..Len(copy_requests) :
          copy_requests[j].dst = copy_requests[k].dst => j = k
    /\ folder.files \subseteq {copy_requests[k].dst : k \in 1..Len(copy_requests)}

C5_Witness ==
    /\ pc = "render"
    /\ Len(copy_requests) = 2
    /\ Len(tree) = 5
    /\ ~IsMatchedIndex(0)
    /\ Cardinality(folder.files) = 2

(***************************************************************************)
(* C6: generate_tree fails with ValueError for every even length and every *)
(* odd length below 5, returns no tree, and nothing has happened by then:  *)
(* the folder is untouched, no copy was requested, index.html not written. *)
(***************************************************************************)
C6_InvalidLengthFailsFirst ==
    ~ValidLength(length) =>
        /\ pc \in {"get_template", "generate_tree", "failed"}
        /\ pc = "failed" =>
              error = IF template_present THEN "ValueError" ELSE "TemplateNotFound"
        /\ tree = <<>>
        /\ folder = folder0
        /\ applications = 0
        /\ copy_requests = <<>>
        /\ sequence = <<>>
        /\ index_html # "written"

C6_Witness ==
    /\ pc = "failed"
    /\ error = "ValueError"
    /\ length = 0 - 5
    /\ folder.files # {}

(***************************************************************************)
(* C7: the run is fail-stop and ordered: tree, then folder clear and       *)
(* recreate, then the copies in ascending index order, then index.html     *)
(* last.  After a failure nothing more runs and index.html is not written; *)
(* a failed folder preparation leaves no copy request; a failed copy at    *)
(* index i leaves exactly the copies of the indices below i.               *)
(***************************************************************************)
RequestedBelow(n) == {copy_requests[k].dst : k \in 1..Min(n, Len(copy_requests))}

C7_FailStopOrdered ==
    /\ (pc = "failed") <=> (error # "none")
    /\ pc = "failed" => index_html # "written" /\ ~ENABLED Next
    /\ pc = "mkdir" \/ applications > 0 =>
          TreeReturned /\ Len(tree) = length
    /\ copy_requests # <<>> => applications = 1 /\ folder.exists
    /\ \A k \in 1..Len(copy_requests) :
          copy_requests[k].dst =
              sequence[k][1][2] \o "_" \o ToString(k - 1) \o ".gif"
    /\ error \in {"FileNotFoundError:rmtree", "FileExistsError:mkdir"} =>
          copy_requests = <<>> /\ sequence = <<>>
    /\ error = "FileNotFoundError:copyfile" =>
          /\ Len(copy_requests) = index + 1
          /\ copy_requests[index + 1].src \notin game_frames
          /\ folder.files = RequestedBelow(index)
    /\ index_html = "written" =>
          /\ pc = "done"
          /\ Len(tree) = length
          /\ applications = 1
          /\ index = Len(tree)
          /\ output = sequence
          /\ folder.files = RequestedBelow(length - 1)
          /\ Cardinality(folder.files) = length - 1

C7_Witness ==
    /\ pc = "failed"
    /\ error = "FileNotFoundError:copyfile"
    /\ index = 3
    /\ Cardinality(folder.files) = 3
    /\ index_html = "stale"

(***************************************************************************)
(* C8 as claimed: from any state of the folder, the clear-and-recreate     *)
(* step applied twice in a row never fails and leaves the folder existing  *)
(* and empty after each application.                                       *)
(***************************************************************************)
PreparedEachTime ==
    /\ pc # "failed"
    /\ applications > 0 /\ pc \in {"build", "rmtree"} => folder = EmptyFolder

C8_AsClaimed == PreparedEachTime

(***************************************************************************)
(* C8 amended: from any state in which the folder exists, whatever it      *)
(* holds, the clear-and-recreate step applied twice in a row never fails   *)
(* and leaves the folder existing and empty after each application.        *)
(***************************************************************************)
C8_IdempotentOnExistingFolder ==
    folder0.exists => PreparedEachTime

C8_Witness ==
    /\ applications = 2
    /\ folder0.exists
    /\ Cardinality(folder0.files) = 3
    /\ folder = EmptyFolder

(***************************************************************************)
(* C9: for every generated tree the last descriptor (index length - 2) is  *)
(* [L, RNL] / [R, RN_DEATH] whatever the random choices, the sentinel L    *)
(* standing for the missing symbol; no index >= length is ever read.       *)
(***************************************************************************)
C9_LastDescriptorIsRNL ==
    /\ \A r \in reads : 0 <= r /\ r < Len(tree)
    /\ TreeReturned /\ Len(sequence) = length - 1 =>
          /\ Last(sequence) = <<<<"L", "RNL">>, <<"R", "RN_DEATH">>>>
          /\ length - 1 \in reads
          /\ length \notin reads
    /\ BuildDone => Len(sequence) = length - 1 /\ reads = 0..(length - 1)

C9_Witness ==
    /\ pc = "done"
    /\ length = 9
    /\ At(tree, 5) = "L"
    /\ At(tree, 3) = "R"

(***************************************************************************)
(* C10: in the generation loop and in the returned tree every even index   *)
(* holds N and every odd index L or R; the loop ends after exactly         *)
(* length - 3 appends on a prefix of odd length length - 2 ending in N.    *)
(***************************************************************************)
C10_StrictAlternation ==
    /\ pc \in {"gen_loop", "gen_tail"} \/ TreeReturned =>
          \A i \in 0..(Len(tree) - 1) :
             IF i % 2 = 0 THEN At(tree, i) = "N" ELSE IsDirection(At(tree, i))
    /\ pc = "gen_loop" => loop_appends = Len(tree) - 1 /\ Len(tree) <= length - 2
    /\ pc = "gen_tail" =>
          /\ loop_appends = length - 3
          /\ Len(tree) = length - 2
          /\ Len(tree) % 2 = 1
          /\ Last(tree) = "N"
    /\ TreeReturned =>
          /\ loop_appends = length - 3
          /\ (length - 2) % 2 = 1
          /\ At(tree, length - 2) = "R"
          /\ At(tree, length - 1) = "N"

C10_Witness ==
    /\ pc = "gen_tail"
    /\ length = 9
    /\ At(tree, 1) = "R"
    /\ At(tree, 5) = "L"

=============================================================================
